---- MODULE Spec2Model ----
(***************************************************************************)
(* Model of dashboardlinkedin.py: the normalization pipeline               *)
(* (normalizar_dados with its diskcache and the ChatGPT oracle), the       *)
(* location filter of the sidebar, the "Sugestões de Conexão" pair search *)
(* and the tag extractors obter_interesses and obter_areas.                *)
(*                                                                         *)
(* JSON values are records [t, keys, nome, local, interesses]:             *)
(*   t = "dict"  a JSON object; keys is the set of its field names         *)
(*   t = "str"   a JSON string; keys is the set of field names that occur  *)
(*               in it as substrings (what Python's `key in s` tests)      *)
(*   t = "num"   a JSON number or null (not a container)                   *)
(* Text that the code lowercases, strips or splits is a sequence of        *)
(* one-character strings.                                                  *)
(***************************************************************************)
EXTENDS Integers, Sequences, FiniteSets, TLC

VARIABLES
  cache,                  \* diskcache.Cache('./cache_normalizacao'), survives runs
  pc,                     \* position of the script
  run,                    \* number of sessions started so far
  perfis,                 \* dados_brutos, the argument of normalizar_dados
  perfil,                 \* loop variable of the hashing loop (line 120)
  idx,                    \* number of profiles the hashing loop has handled
  perfis_normalizados,    \* local of normalizar_dados
  perfis_para_normalizar, \* local of normalizar_dados
  perfis_hashes,          \* local of normalizar_dados
  b,                      \* index of the current batch (1-based)
  zipped,                 \* zip(perfis_batch_normalizados, hashes), first components
  k,                      \* position in zipped (1-based)
  session_perfis,         \* st.session_state.perfis
  local_selecionado,      \* the sidebar's selectbox
  dados_filtrados,        \* the filtered list
  pares,                  \* the suggested pairs (names), line 479
  pares_idx,              \* history: the index pair behind each entry of pares
  pi,                     \* i of the pair search
  pj,                     \* j of the pair search
  tag_perfil,             \* the profile handed to a tag extractor
  tag_campo,              \* which extractor ran: "interesses" or "área"
  tag_lista,              \* the list the extractor returned
  src,                    \* history: for each output record, how it got there
  requests,               \* history: the hashes of each batch sent to the oracle
  failed,                 \* history: batches whose oracle call returned None
  unparsed,               \* history: batches whose response was not JSON
  stored,                 \* history: fingerprints written to the cache this run
  prev                    \* history: summary of the run before this one

vars == <<cache, pc, run, perfis, perfil, idx, perfis_normalizados,
          perfis_para_normalizar, perfis_hashes, b, zipped, k, session_perfis,
          local_selecionado, dados_filtrados, pares, pares_idx, pi, pj,
          tag_perfil, tag_campo, tag_lista,
          src, requests, failed, unparsed, stored, prev>>

pipelineLocals == <<perfil, idx, perfis_normalizados, perfis_para_normalizar,
                    perfis_hashes, b, zipped, k>>
paresVars == <<pares, pares_idx, pi, pj>>
filterVars == <<local_selecionado, dados_filtrados>>
tagVars == <<tag_perfil, tag_campo, tag_lista>>

----------------------------------------------------------------------------
(* Bounds *)

\* longest raw profile list a session loads
MaxPerfis == 3
\* number of sessions (runs of normalizar_dados) sharing the cache
MaxRuns == 2
\* longest raw profile list of the single session of SpecLong
MaxPerfisLong == 5
\* longest list handed to the pair search
MaxPares == 5
\* longest #-joined field text handed to a tag extractor
MaxTagChars == 3
\* longest list-shaped field handed to a tag extractor
MaxTagItems == 2
\* batch size of normalizar_dados; the code uses 20, scaled down here so
\* that lists of MaxPerfis profiles are cut into several batches
batch_size == 2

\* the pair search stops at this many pairs (lines 486 and 488)
LimitePares == 3

Min(x, y) == IF x <= y THEN x ELSE y

----------------------------------------------------------------------------
(* Values *)

Required == <<"nome", "local", "área", "interesses">>
RequiredSet == {Required[n] : n \in 1..Len(Required)}

StrItem(s) == [t |-> "str", s |-> s]
NumItem == [t |-> "num", s |-> <<>>]
TagList(items) == [t |-> "list", items |-> items, s |-> <<>>]
TagStr(s) == [t |-> "str", items |-> <<>>, s |-> s]
TagNum == [t |-> "num", items |-> <<>>, s |-> <<>>]

Dict(nome, keys, local, interesses) ==
  [t |-> "dict", keys |-> keys, nome |-> nome, local |-> local,
   interesses |-> interesses]

\* two raw profiles of the roster: one complete, one without local and área
RawA == Dict("A", RequiredSet, "sao paulo - sp", TagStr(<<"X", "#", "y">>))
RawB == Dict("B", {"nome", "interesses"}, "", TagList(<<StrItem(<<"y", " ">>)>>))
RawProfiles == {RawA, RawB}

\* what the oracle may put at one position of its JSON answer
N1 == Dict("A", RequiredSet, "São Paulo/SP", TagStr(<<"x", "#", "y">>))
N2 == Dict("B", RequiredSet, "Não informado", TagStr(<<"y">>))
Partial == Dict("C", {"nome", "local"}, "Rio/RJ", TagList(<<>>))
StrOf(names) ==
  [t |-> "str", keys |-> names, nome |-> "", local |-> "",
   interesses |-> TagList(<<>>)]
\* a plain string, and a string holding a JSON-encoded profile
StrPlain == StrOf({})
StrKeys == StrOf(RequiredSet)
Num == [t |-> "num", keys |-> {}, nome |-> "", local |-> "",
        interesses |-> TagList(<<>>)]
Elems == {N1, N2, Partial, StrPlain, StrKeys, Num}

Absent == [t |-> "absent", keys |-> {}, nome |-> "", local |-> "",
           interesses |-> TagList(<<>>)]

\* md5(json.dumps(perfil, sort_keys=True)): the digest of the canonical
\* serialization; equal field values give equal digests, md5 collisions are
\* left out
Fingerprint(p) == <<"md5", p.nome, p.keys, p.local, p.interesses>>
Hashes == {Fingerprint(p) : p \in RawProfiles}

InCache(h) == cache[h] # Absent

SeqsUpTo(S, n) == UNION {[1..m -> S] : m \in 0..n}

----------------------------------------------------------------------------
(* Python operators the validation relies on *)

\* `key in x` raises TypeError unless x is a container
IsContainer(x) == x.t \in {"dict", "str"}
KeyIn(key, x) == key \in x.keys
\* all(key in x for key in ['nome', 'local', 'área', 'interesses'])
AllKeys(x) == \A n \in 1..Len(Required) : KeyIn(Required[n], x)
\* x.get(...) exists on dicts only
HasGet(x) == x.t = "dict"
\* p["local"]: KeyError on a dict without the key, TypeError on a string
CanIndexLocal(x) == x.t = "dict" /\ "local" \in x.keys

----------------------------------------------------------------------------
(* Batching, lines 134-136 *)

NumBatches == (Len(perfis_para_normalizar) + batch_size - 1) \div batch_size
BatchOf(s, n) == SubSeq(s, (n - 1) * batch_size + 1, Min(n * batch_size, Len(s)))
batch == BatchOf(perfis_para_normalizar, b)
hashes == BatchOf(perfis_hashes, b)

Origin(via, p, bn, pos) == [via |-> via, for |-> p, b |-> bn, k |-> pos]
FallbackSrc == [n \in 1..Len(batch) |-> Origin("fallback", batch[n], b, n)]

NoPrev == [perfis |-> <<>>, stored |-> {}, outFor |-> [h \in Hashes |-> {}]]

ClearLocals ==
  /\ perfil' = Absent
  /\ idx' = 0
  /\ perfis_normalizados' = <<>>
  /\ perfis_para_normalizar' = <<>>
  /\ perfis_hashes' = <<>>
  /\ b' = 1
  /\ zipped' = <<>>
  /\ k' = 1

----------------------------------------------------------------------------
(* The pipeline *)

Init ==
  /\ cache = [h \in Hashes |-> Absent]
  /\ pc = "idle"
  /\ run = 0
  /\ perfis = <<>>
  /\ perfil = Absent
  /\ idx = 0
  /\ perfis_normalizados = <<>>
  /\ perfis_para_normalizar = <<>>
  /\ perfis_hashes = <<>>
  /\ b = 1
  /\ zipped = <<>>
  /\ k = 1
  /\ session_perfis = <<>>
  /\ local_selecionado = "Todos"
  /\ dados_filtrados = <<>>
  /\ pares = <<>>
  /\ pares_idx = <<>>
  /\ pi = 0
  /\ pj = 0
  /\ tag_perfil = Absent
  /\ tag_campo = ""
  /\ tag_lista = <<>>
  /\ src = <<>>
  /\ requests = <<>>
  /\ failed = {}
  /\ unparsed = {}
  /\ stored = {}
  /\ prev = NoPrev

\* A new session: 'perfis' not in st.session_state, carregar_dados() returns
\* a non-empty list (an empty one stops the script) and normalizar_dados is
\* entered. The cache directory is the one earlier sessions wrote.
StartWith(maxLen, maxRuns) ==
  /\ pc \in {"idle", "filtered", "raised", "filter_error"}
  /\ run < maxRuns
  /\ \E ps \in SeqsUpTo(RawProfiles, maxLen) :
       /\ ps # <<>>
       /\ perfis' = ps
  /\ run' = run + 1
  /\ pc' = "hash"
  /\ ClearLocals
  /\ session_perfis' = <<>>
  /\ local_selecionado' = "Todos"
  /\ dados_filtrados' = <<>>
  /\ src' = <<>>
  /\ requests' = <<>>
  /\ failed' = {}
  /\ unparsed' = {}
  /\ stored' = {}
  /\ UNCHANGED <<cache, prev, paresVars, tagVars>>

Start == StartWith(MaxPerfis, MaxRuns)
\* one session over a longer roster, cut into three batches or more
StartLong == StartWith(MaxPerfisLong, 1)

\* One iteration of `for perfil in perfis` (lines 120-127). json.dumps and
\* md5 cannot fail on values that came out of response.json(), so the except
\* branch of lines 128-131 is never taken.
HashStep ==
  /\ pc = "hash"
  /\ idx < Len(perfis)
  /\ LET p == perfis[idx + 1]
         perfil_hash == Fingerprint(p)
     IN /\ perfil' = p
        /\ idx' = idx + 1
        /\ IF InCache(perfil_hash)
             THEN /\ perfis_normalizados' = Append(perfis_normalizados, cache[perfil_hash])
                  /\ src' = Append(src, Origin("hit", p, 0, idx + 1))
                  /\ UNCHANGED <<perfis_para_normalizar, perfis_hashes>>
             ELSE /\ perfis_para_normalizar' = Append(perfis_para_normalizar, p)
                  /\ perfis_hashes' = Append(perfis_hashes, perfil_hash)
                  /\ UNCHANGED <<perfis_normalizados, src>>
        /\ pc' = IF idx + 1 < Len(perfis) THEN "hash"
                 ELSE IF perfis_para_normalizar' = <<>> THEN "return" ELSE "batch"
  /\ UNCHANGED <<cache, run, perfis, b, zipped, k, session_perfis, filterVars,
                 paresVars, tagVars, requests, failed, unparsed, stored, prev>>

AfterBatch == IF b + 1 > NumBatches THEN "return" ELSE "batch"

\* the whole batch falls back to its raw profiles (lines 157 and 159)
RawFallback ==
  /\ perfis_normalizados' = perfis_normalizados \o batch
  /\ src' = src \o FallbackSrc
  /\ b' = b + 1
  /\ pc' = AfterBatch
  /\ UNCHANGED <<cache, run, perfis, perfil, idx, perfis_para_normalizar,
                 perfis_hashes, zipped, k, session_perfis, filterVars,
                 paresVars, tagVars, stored, prev>>

\* acessa_chatgpt caught an exception (network error, non-2xx status,
\* timeout) and returned None, or returned an empty text: `if resposta` fails
OracleFails ==
  /\ pc = "batch"
  /\ requests' = Append(requests, hashes)
  /\ failed' = failed \cup {b}
  /\ UNCHANGED unparsed
  /\ RawFallback

\* json.loads raises JSONDecodeError (lines 154-157)
OracleUnparsable ==
  /\ pc = "batch"
  /\ requests' = Append(requests, hashes)
  /\ unparsed' = unparsed \cup {b}
  /\ UNCHANGED failed
  /\ RawFallback

\* an exception other than JSONDecodeError leaves normalizar_dados: nothing
\* catches it, the script run ends and only the cache keeps what was written
Raise ==
  /\ pc' = "raised"
  /\ ClearLocals
  /\ session_perfis' = <<>>
  /\ src' = <<>>
  /\ prev' = NoPrev
  /\ UNCHANGED <<cache, run, perfis, filterVars, paresVars, tagVars, stored>>

\* the response parsed; the for statement of line 147 starts iterating
\* zip(perfis_batch_normalizados, hashes), which stops at the shorter one
EnterMerge(items) ==
  /\ zipped' = SubSeq(items, 1, Min(Len(items), Len(hashes)))
  /\ k' = 1
  /\ pc' = "merge"
  /\ UNCHANGED <<cache, run, perfis, perfil, idx, perfis_normalizados,
                 perfis_para_normalizar, perfis_hashes, b, session_perfis,
                 filterVars, paresVars, tagVars, src, stored, prev>>

\* the response is a JSON array, of any length around the batch's
OracleReturnsList ==
  /\ pc = "batch"
  /\ requests' = Append(requests, hashes)
  /\ UNCHANGED <<failed, unparsed>>
  /\ \E resp \in SeqsUpTo(Elems, Len(batch) + 1) : EnterMerge(resp)

\* the response is one JSON object (here a complete normalized profile):
\* zip iterates its keys, which are strings
OracleReturnsObject ==
  /\ pc = "batch"
  /\ requests' = Append(requests, hashes)
  /\ UNCHANGED <<failed, unparsed>>
  /\ EnterMerge([n \in 1..Len(Required) |-> StrOf({Required[n]})])

\* the response is a JSON number or null: zip raises TypeError
OracleReturnsScalar ==
  /\ pc = "batch"
  /\ requests' = Append(requests, hashes)
  /\ UNCHANGED <<failed, unparsed>>
  /\ Raise

perfil_normalizado == zipped[k]
perfil_hash_k == hashes[k]

\* line 148 holds: line 149, cache[perfil_hash] = perfil_normalizado
MergeStore ==
  /\ pc = "merge"
  /\ k <= Len(zipped)
  /\ IsContainer(perfil_normalizado)
  /\ AllKeys(perfil_normalizado)
  /\ cache' = [cache EXCEPT ![perfil_hash_k] = perfil_normalizado]
  /\ stored' = stored \cup {perfil_hash_k}
  /\ pc' = "append"
  /\ UNCHANGED <<run, perfis, pipelineLocals, session_perfis, filterVars,
                 paresVars, tagVars, src, requests, failed, unparsed, prev>>

\* line 150, perfis_normalizados.append(perfil_normalizado)
MergeAppend ==
  /\ pc = "append"
  /\ perfis_normalizados' = Append(perfis_normalizados, perfil_normalizado)
  /\ src' = Append(src, Origin("accepted", batch[k], b, k))
  /\ k' = k + 1
  /\ pc' = "merge"
  /\ UNCHANGED <<cache, run, perfis, perfil, idx, perfis_para_normalizar,
                 perfis_hashes, b, zipped, session_perfis, filterVars,
                 paresVars, tagVars, requests, failed, unparsed, stored, prev>>

\* line 148 fails on a dict: lines 152-153 append `perfil`, the variable the
\* hashing loop left bound to the last profile of the input
MergeReject ==
  /\ pc = "merge"
  /\ k <= Len(zipped)
  /\ IsContainer(perfil_normalizado)
  /\ ~AllKeys(perfil_normalizado)
  /\ HasGet(perfil_normalizado)
  /\ perfis_normalizados' = Append(perfis_normalizados, perfil)
  /\ src' = Append(src, Origin("rejected", batch[k], b, k))
  /\ k' = k + 1
  /\ UNCHANGED <<cache, pc, run, perfis, perfil, idx, perfis_para_normalizar,
                 perfis_hashes, b, zipped, session_perfis, filterVars,
                 paresVars, tagVars, requests, failed, unparsed, stored, prev>>

\* line 148 raises TypeError on a number or null; on a string that lacks a
\* key name, line 152 raises AttributeError (str has no .get)
MergeRaise ==
  /\ pc = "merge"
  /\ k <= Len(zipped)
  /\ \/ ~IsContainer(perfil_normalizado)
     \/ /\ ~AllKeys(perfil_normalizado)
        /\ ~HasGet(perfil_normalizado)
  /\ Raise
  /\ UNCHANGED <<requests, failed, unparsed>>

\* zip is exhausted: next iteration of the loop of line 139
MergeEnd ==
  /\ pc = "merge"
  /\ k > Len(zipped)
  /\ b' = b + 1
  /\ zipped' = <<>>
  /\ k' = 1
  /\ pc' = AfterBatch
  /\ UNCHANGED <<cache, run, perfis, perfil, idx, perfis_normalizados,
                 perfis_para_normalizar, perfis_hashes, session_perfis,
                 filterVars, paresVars, tagVars, src, requests, failed, unparsed,
                 stored, prev>>

\* line 161 and line 190: the list becomes st.session_state.perfis
Return ==
  /\ pc = "return"
  /\ session_perfis' = perfis_normalizados
  /\ prev' = [perfis |-> perfis,
              stored |-> stored,
              outFor |-> [h \in Hashes |->
                 {perfis_normalizados[n] :
                    n \in {m \in DOMAIN src : Fingerprint(src[m].for) = h}}]]
  /\ ClearLocals
  /\ pc' = "returned"
  /\ UNCHANGED <<cache, run, perfis, filterVars, paresVars, tagVars, src, requests,
                 failed, unparsed, stored>>

----------------------------------------------------------------------------
(* The sidebar filter, lines 196-203 *)

\* {p["local"] for p in perfis if p["local"] != "Não informado"}; the code
\* sorts the options for display, the selectbox may return any of them
local_options ==
  {"Todos"} \cup {session_perfis[n].local :
                    n \in {m \in DOMAIN session_perfis :
                             session_perfis[m].local # "Não informado"}}

FilterOk ==
  /\ pc = "returned"
  /\ \A n \in DOMAIN session_perfis : CanIndexLocal(session_perfis[n])
  /\ \E sel \in local_options :
       /\ local_selecionado' = sel
       /\ LET Keep(p) == sel = "Todos" \/ p.local = sel
          IN dados_filtrados' = SelectSeq(session_perfis, Keep)
  /\ pc' = "filtered"
  /\ UNCHANGED <<cache, run, perfis, pipelineLocals, session_perfis, paresVars, tagVars,
                 src, requests, failed, unparsed, stored, prev>>

\* p["local"] raises KeyError or TypeError at line 196
FilterRaise ==
  /\ pc = "returned"
  /\ \E n \in DOMAIN session_perfis : ~CanIndexLocal(session_perfis[n])
  /\ pc' = "filter_error"
  /\ UNCHANGED <<cache, run, perfis, pipelineLocals, session_perfis, filterVars,
                 paresVars, tagVars, src, requests, failed, unparsed, stored, prev>>

Next ==
  \/ Start
  \/ HashStep
  \/ OracleFails
  \/ OracleUnparsable
  \/ OracleReturnsList
  \/ OracleReturnsObject
  \/ OracleReturnsScalar
  \/ MergeStore
  \/ MergeAppend
  \/ MergeReject
  \/ MergeRaise
  \/ MergeEnd
  \/ Return
  \/ FilterOk
  \/ FilterRaise

Spec == Init /\ [][Next]_vars

NextLong ==
  \/ StartLong
  \/ HashStep
  \/ OracleFails
  \/ OracleUnparsable
  \/ OracleReturnsList
  \/ OracleReturnsObject
  \/ OracleReturnsScalar
  \/ MergeStore
  \/ MergeAppend
  \/ MergeReject
  \/ MergeRaise
  \/ MergeEnd
  \/ Return
  \/ FilterOk
  \/ FilterRaise

SpecLong == Init /\ [][NextLong]_vars

----------------------------------------------------------------------------
(* Tag extraction, lines 77-85 *)

LowerChar(c) == CASE c = "X" -> "x" [] c = "Y" -> "y" [] c = "Z" -> "z" [] OTHER -> c
\* str.lower()
Lower(s) == [n \in 1..Len(s) |-> LowerChar(s[n])]

\* str.strip()
RECURSIVE LStrip(_)
LStrip(s) == IF s # <<>> /\ s[1] = " " THEN LStrip(Tail(s)) ELSE s
RECURSIVE RStrip(_)
RStrip(s) == IF s # <<>> /\ s[Len(s)] = " " THEN RStrip(SubSeq(s, 1, Len(s) - 1)) ELSE s
Strip(s) == RStrip(LStrip(s))

\* str.split('#'): the pieces between the separators, empty ones included
RECURSIVE SplitFrom(_, _)
SplitFrom(s, cur) ==
  IF s = <<>> THEN <<cur>>
  ELSE IF s[1] = "#" THEN <<cur>> \o SplitFrom(Tail(s), <<>>)
  ELSE SplitFrom(Tail(s), Append(cur, s[1]))
Split(s) == SplitFrom(s, <<>>)

RECURSIVE MapTags(_)
\* [tag.lower().strip() for tag in tags], on a list of strings
MapTags(tags) ==
  IF tags = <<>> THEN <<>> ELSE <<Strip(Lower(tags[1]))>> \o MapTags(Tail(tags))

\* perfil.get('interesses', [])
GetInteresses(p) == IF "interesses" \in p.keys THEN p.interesses ELSE TagList(<<>>)
\* perfil.get('nome', 'Sem Nome')
GetNome(p) == IF "nome" \in p.keys THEN p.nome ELSE "Sem Nome"

obter_interesses(p) ==
  LET interesses == GetInteresses(p)
      KeepItem(tag) == tag.t = "str" /\ Strip(tag.s) # <<>>
      KeepPiece(tag) == Strip(tag) # <<>>
      kept == SelectSeq(interesses.items, KeepItem)
  IN IF interesses.t = "list"
       THEN MapTags([n \in 1..Len(kept) |-> kept[n].s])
     ELSE IF interesses.t = "str"
       THEN MapTags(SelectSeq(Split(interesses.s), KeepPiece))
     ELSE <<>>

\* set(obter_interesses(p))
TagSet(p) == {obter_interesses(p)[n] : n \in 1..Len(obter_interesses(p))}

----------------------------------------------------------------------------
(* "Sugestões de Conexão", lines 477-496 *)

ParesProfiles ==
  { Dict("A", RequiredSet, "SP", TagList(<<StrItem(<<"x">>), StrItem(<<"Y", " ">>)>>)),
    Dict("C", {"nome", "local"}, "SP", TagList(<<>>)),
    Dict("D", RequiredSet, "SP", TagStr(<<" ", "X", "#", " ", "#", "z">>)),
    Dict("E", RequiredSet, "SP", TagNum),
    Dict("F", {"local", "interesses"}, "SP",
         TagList(<<StrItem(<<" ">>), NumItem, StrItem(<<"z">>)>>)) }

InitPares ==
  /\ cache = [h \in Hashes |-> Absent]
  /\ pc = "pares_start"
  /\ run = 0
  /\ perfis = <<>>
  /\ perfil = Absent
  /\ idx = 0
  /\ perfis_normalizados = <<>>
  /\ perfis_para_normalizar = <<>>
  /\ perfis_hashes = <<>>
  /\ b = 1
  /\ zipped = <<>>
  /\ k = 1
  /\ session_perfis = <<>>
  /\ local_selecionado = "Todos"
  /\ dados_filtrados \in SeqsUpTo(ParesProfiles, MaxPares)
  /\ pares = <<>>
  /\ pares_idx = <<>>
  /\ pi = 0
  /\ pj = 0
  /\ tag_perfil = Absent
  /\ tag_campo = ""
  /\ tag_lista = <<>>
  /\ src = <<>>
  /\ requests = <<>>
  /\ failed = {}
  /\ unparsed = {}
  /\ stored = {}
  /\ prev = NoPrev

notPares == <<cache, run, perfis, pipelineLocals, session_perfis, filterVars, tagVars,
              src, requests, failed, unparsed, stored, prev>>

\* line 477 fails: fewer than two members, nothing is searched
ParesSkip ==
  /\ pc = "pares_start"
  /\ Len(dados_filtrados) < 2
  /\ pc' = "pares_done"
  /\ UNCHANGED <<paresVars, notPares>>

\* lines 477-480: pares = [], the outer loop starts (indices are 1-based here)
ParesBegin ==
  /\ pc = "pares_start"
  /\ Len(dados_filtrados) >= 2
  /\ pares' = <<>>
  /\ pares_idx' = <<>>
  /\ pi' = 1
  /\ pj' = 1
  /\ pc' = "pares_outer"
  /\ UNCHANGED notPares

\* line 480-482: the outer loop takes profile pi, or is exhausted
ParesOuter ==
  /\ pc = "pares_outer"
  /\ IF pi <= Len(dados_filtrados)
       THEN pj' = pi + 1 /\ pc' = "pares_inner"
       ELSE pj' = pj /\ pc' = "pares_done"
  /\ UNCHANGED <<pares, pares_idx, pi, notPares>>

\* lines 482-487: one iteration of the inner loop, or its exhaustion
ParesInner ==
  /\ pc = "pares_inner"
  /\ IF pj > Len(dados_filtrados)
       THEN /\ pc' = "pares_after"
            /\ UNCHANGED <<pares, pares_idx, pj>>
       ELSE LET interesses1 == TagSet(dados_filtrados[pi])
                interesses2 == TagSet(dados_filtrados[pj])
            IN IF interesses1 \cap interesses2 # {}
                 THEN /\ pares' = Append(pares, <<GetNome(dados_filtrados[pi]),
                                                  GetNome(dados_filtrados[pj])>>)
                      /\ pares_idx' = Append(pares_idx, <<pi, pj>>)
                      /\ IF Len(pares') >= LimitePares
                           THEN pc' = "pares_after" /\ pj' = pj
                           ELSE pc' = "pares_inner" /\ pj' = pj + 1
                 ELSE /\ pj' = pj + 1
                      /\ UNCHANGED <<pares, pares_idx, pc>>
  /\ UNCHANGED <<pi, notPares>>

\* a slip the search could have: the outer loop is not left at the limit
ParesAfterInnerNoBreak ==
  /\ pc = "pares_after"
  /\ pi' = pi + 1
  /\ pc' = "pares_outer"
  /\ UNCHANGED <<pares, pares_idx, pj, notPares>>

\* lines 488-489: leave the outer loop at the limit, else next pi
ParesAfterInner ==
  /\ pc = "pares_after"
  /\ IF Len(pares) >= LimitePares
       THEN pc' = "pares_done" /\ pi' = pi
       ELSE pc' = "pares_outer" /\ pi' = pi + 1
  /\ UNCHANGED <<pares, pares_idx, pj, notPares>>

NextPares ==
  \/ ParesSkip
  \/ ParesBegin
  \/ ParesOuter
  \/ ParesInner
  \/ ParesAfterInner

SpecPares == InitPares /\ [][NextPares]_vars

TypeOK == pc \in {"idle", "hash", "batch", "merge", "append", "return",
                  "returned", "filtered", "raised", "filter_error",
                  "pares_start", "pares_outer", "pares_inner", "pares_after",
                  "pares_done", "tags_start", "tags_done"}

----------------------------------------------------------------------------
(* C10 *)

\* the index pairs whose interest-tag sets intersect
Matching ==
  {q \in (1..Len(dados_filtrados)) \X (1..Len(dados_filtrados)) :
     /\ q[1] < q[2]
     /\ TagSet(dados_filtrados[q[1]]) \cap TagSet(dados_filtrados[q[2]]) # {}}
\* enumeration order: i ascending, j ascending within i
Before(q, r) == q[1] < r[1] \/ (q[1] = r[1] /\ q[2] < r[2])
RankOf(q) == Cardinality({r \in Matching : Before(r, q)})

\* C10: when the pair search has ended, the result is exactly the first
\* min(3, total) matching index pairs in enumeration order (named by the two
\* profiles' names), the search stood still at the third pair if it found
\* three, no profile without interest tags is in a pair, and at no time
\* does the result hold more than 3 pairs.
C10_FirstThreePairs ==
  /\ Len(pares) <= 3
  /\ Len(pares) = Len(pares_idx)
  /\ pc = "pares_done" =>
       /\ Len(pares_idx) = Min(3, Cardinality(Matching))
       /\ \A m \in 1..Len(pares_idx) :
            /\ pares_idx[m] \in Matching
            /\ RankOf(pares_idx[m]) = m - 1
            /\ pares[m] = <<GetNome(dados_filtrados[pares_idx[m][1]]),
                            GetNome(dados_filtrados[pares_idx[m][2]])>>
            /\ TagSet(dados_filtrados[pares_idx[m][1]]) # {}
            /\ TagSet(dados_filtrados[pares_idx[m][2]]) # {}
       /\ Len(pares_idx) = 3 => <<pi, pj>> = pares_idx[3]

\* a search over four or more members that stopped at the limit although a
\* fourth matching pair exists, with a tagless member left out
C10_Witness ==
  /\ pc = "pares_done"
  /\ Len(pares) = 3
  /\ Cardinality(Matching) > 3
  /\ \E n \in 1..pi : TagSet(dados_filtrados[n]) = {}
----------------------------------------------------------------------------
(* C1 - C9: the pipeline and the filter *)

\* the output list, as the local of normalizar_dados or, once returned, as
\* st.session_state.perfis; src runs parallel to it
Out == IF pc \in {"returned", "filtered", "filter_error"}
         THEN session_perfis ELSE perfis_normalizados
Ended == pc \in {"returned", "filtered", "filter_error", "raised"}
\* positions of the output that batch bn contributed
OutOf(bn) == {n \in DOMAIN src : src[n].b = bn}
\* batch bn contributed exactly its raw profiles, in batch order
RawContribution(bn) ==
  /\ Cardinality(OutOf(bn)) = Len(requests[bn])
  /\ \A n \in OutOf(bn) : Out[n] = src[n].for
  /\ \A n1, n2 \in OutOf(bn) : n1 < n2 => src[n1].k < src[n2].k

\* C1: the record appended for a rejected oracle record at position k of a
\* batch is the raw profile at position k of that batch.
C1_RejectedKeepsOwnRaw ==
  \A n \in DOMAIN src : src[n].via = "rejected" => Out[n] = src[n].for

\* C2: in a run on the same list as the run before it, no fingerprint the
\* earlier run stored is part of an oracle request, and every output record
\* for such a profile is the record the earlier run output for it.
C2_SecondRunIdentical ==
  (pc \in {"hash", "batch", "merge", "append", "return"}
     /\ prev.perfis = perfis) =>
    /\ \A r \in DOMAIN requests : \A m \in DOMAIN requests[r] :
         requests[r][m] \notin prev.stored
    /\ \A n \in DOMAIN src :
         Fingerprint(src[n].for) \in prev.stored =>
           prev.outFor[Fingerprint(src[n].for)] = {Out[n]}

\* C3: within one run the oracle requests taken together hold at most one
\* entry for any fingerprint.
C3_AtMostOneRequestPerFingerprint ==
  \A r1, r2 \in DOMAIN requests :
    \A m1 \in DOMAIN requests[r1] : \A m2 \in DOMAIN requests[r2] :
      requests[r1][m1] = requests[r2][m2] => (r1 = r2 /\ m1 = m2)

\* C4: a batch whose response did not parse contributes exactly its raw
\* profiles in batch order, and after the run none of its fingerprints is
\* a key of the cache.
C4_UnparsableBatchFallsBack ==
  \A bn \in unparsed :
    /\ pc # "raised" => RawContribution(bn)
    /\ Ended => \A m \in DOMAIN requests[bn] : ~InCache(requests[bn][m])

\* C5: normalizar_dados never raises, whatever the parsed response is.
C5_NeverRaises == pc # "raised"

\* C6: the returned list has as many records as the input list, and every
\* record that is not a normalized one is the raw profile it stands for.
C6_OneRecordPerInput ==
  pc = "returned" =>
    /\ Len(session_perfis) = Len(perfis)
    /\ \A n \in DOMAIN src :
         src[n].via \in {"rejected", "fallback"} => session_perfis[n] = src[n].for

\* C7: a failed oracle call appends the raw batch and writes nothing to the
\* cache, and when the run ends every batch after a failed one has been
\* sent to the oracle.
C7_FailureDoesNotAbortLaterBatches ==
  [][ /\ (b \in failed' /\ b \notin failed) =>
           /\ perfis_normalizados' = perfis_normalizados \o batch
           /\ cache' = cache
      /\ (pc \in {"batch", "merge", "return"} /\ pc' \in {"returned", "raised"}) =>
           \A bn \in failed : \A j \in (bn + 1)..NumBatches : j <= Len(requests')
    ]_vars

\* C8: every cache entry is a record with all of nome, local, área and
\* interesses, and an accepted record is in the cache under its profile's
\* fingerprint when it is appended to the output.
C8_CacheHoldsCompleteRecords ==
  /\ \A h \in Hashes :
       InCache(h) => cache[h].t = "dict" /\ RequiredSet \subseteq cache[h].keys
  /\ pc = "append" => cache[perfil_hash_k] = perfil_normalizado

\* C9: deriving the location options and filtering never fails.
C9_FilterNeverRaises == pc # "filter_error"
----------------------------------------------------------------------------
(* Tag extraction over both fields, lines 77-95 and their caller 177-184 *)

\* a profile whose área and interesses fields both hold the given values
TagProfile(keys, area, interesses) ==
  [t |-> "dict", keys |-> keys, nome |-> "T", local |-> "SP",
   interesses |-> interesses, area |-> area]

\* perfil.get('área', "")
GetArea(p) == IF "área" \in p.keys THEN p.area ELSE TagStr(<<>>)

obter_areas(p) ==
  LET area == GetArea(p)
      KeepItem(tag) == tag.t = "str" /\ Strip(tag.s) # <<>>
      KeepPiece(tag) == Strip(tag) # <<>>
      kept == SelectSeq(area.items, KeepItem)
  IN IF area.t = "list"
       THEN MapTags([n \in 1..Len(kept) |-> kept[n].s])
     ELSE IF area.t = "str"
       THEN MapTags(SelectSeq(Split(area.s), KeepPiece))
     ELSE <<>>

\* the field values the extractors are tried on: #-joined texts, lists of
\* strings and numbers, and a number
TagChars == {"a", "A", " ", "#"}
TagItems == {StrItem(<<"a">>), StrItem(<<"A">>), StrItem(<<" ", "a">>),
             StrItem(<<"b">>), StrItem(<<" ">>), NumItem}
TagFieldValues ==
  {TagStr(s) : s \in SeqsUpTo(TagChars, MaxTagChars)}
    \cup {TagList(items) : items \in SeqsUpTo(TagItems, MaxTagItems)}
    \cup {TagNum}
TagProfiles ==
  {TagProfile(RequiredSet, v, v) : v \in TagFieldValues}
    \cup {TagProfile({"nome", "local"}, TagNum, TagNum)}

InitTags ==
  /\ cache = [h \in Hashes |-> Absent]
  /\ pc = "tags_start"
  /\ run = 0
  /\ perfis = <<>>
  /\ perfil = Absent
  /\ idx = 0
  /\ perfis_normalizados = <<>>
  /\ perfis_para_normalizar = <<>>
  /\ perfis_hashes = <<>>
  /\ b = 1
  /\ zipped = <<>>
  /\ k = 1
  /\ session_perfis = <<>>
  /\ local_selecionado = "Todos"
  /\ dados_filtrados = <<>>
  /\ pares = <<>>
  /\ pares_idx = <<>>
  /\ pi = 0
  /\ pj = 0
  /\ tag_perfil \in TagProfiles
  /\ tag_campo = ""
  /\ tag_lista = <<>>
  /\ src = <<>>
  /\ requests = <<>>
  /\ failed = {}
  /\ unparsed = {}
  /\ stored = {}
  /\ prev = NoPrev

notTags == <<cache, run, perfis, pipelineLocals, session_perfis, filterVars,
             paresVars, src, requests, failed, unparsed, stored, prev>>

\* processar_tags with campo == "interesses" (line 181), for one profile
CallObterInteresses ==
  /\ pc = "tags_start"
  /\ tag_campo' = "interesses"
  /\ tag_lista' = obter_interesses(tag_perfil)
  /\ pc' = "tags_done"
  /\ UNCHANGED <<tag_perfil, notTags>>

\* processar_tags with campo == "área" (line 183), for one profile
CallObterAreas ==
  /\ pc = "tags_start"
  /\ tag_campo' = "área"
  /\ tag_lista' = obter_areas(tag_perfil)
  /\ pc' = "tags_done"
  /\ UNCHANGED <<tag_perfil, notTags>>

NextTags ==
  \/ CallObterInteresses
  \/ CallObterAreas

SpecTags == InitTags /\ [][NextTags]_vars

----------------------------------------------------------------------------
(* C11 *)

\* C11: the list obter_interesses or obter_areas returned holds no tag
\* twice.
C11_NoTagTwice ==
  pc = "tags_done" =>
    \A m, n \in DOMAIN tag_lista : tag_lista[m] = tag_lista[n] => m = n
====
